---- MODULE Spec2Model ----
(***************************************************************************)
(* Shamir secret sharing over Z_MOD (o1810156/shamir_share_mpc).           *)
(*                                                                         *)
(*   src/src/lib.rs   ModInt<MOD> (field element), ModCom<MOD> (binomial   *)
(*                    table)                                               *)
(*   src/src/main.rs  Player<T>, phis, add_simulation, mul_simulation      *)
(*                                                                         *)
(* A ModInt is modelled by its stored val (a usize).  A panic ends the   *)
(* program: it is recorded in failure and no action is enabled after it. *)
(*                                                                         *)
(* Specifications                                                          *)
(*   SpecField  any sequence of ModInt constructors and operations         *)
(*   SpecCom    ModCom::new(cap) followed by com(n, k) queries             *)
(*   SpecPhis   phis(parts) on a bounded list of u16 ids                   *)
(*   Spec       Player operations called in any order by a driver          *)
(*   SpecAdd    add_simulation, statement by statement                     *)
(*   SpecMul    mul_simulation, statement by statement                     *)
(***************************************************************************)
EXTENDS Integers, Sequences, FiniteSets, TLC

VARIABLES
    MOD,        \* the const generic parameter of ModInt<MOD> / ModCom<MOD>
    x,          \* SpecField: the ModInt operated on (self)
    y,          \* SpecField: the second ModInt (other)
    lastOp,     \* the last call made: its name, operands and result
    failure,    \* "none", or the message of the panic that ended the program
    com,        \* SpecCom: the ModCom built, NoCom before ModCom::new
    parts,      \* SpecPhis: the slice handed to phis
    players,    \* the Player values alive, by variable name
    phs,        \* the weight maps returned by phis, by variable name
    out,        \* the values printed by the simulation, in order
    pc          \* the driver's position (the statement to run next)

vars == <<MOD, x, y, lastOp, failure, com, parts, players, phs, out, pc>>

fieldVars == <<x, y>>
playerVars == <<players, phs, out, pc>>

(***************************************************************************)
(* Bounds of the model.                                                    *)
(***************************************************************************)
\* moduli 2..MaxMod are instantiated in SpecField, SpecCom and SpecPhis
MaxMod == 13
\* integers 0..MaxInt are handed to the constructors and to pow_u
MaxInt == 14
\* strings of 0..MaxDigits characters are handed to from_str_radix
MaxDigits == 2

\* ModCom::new is called with capacities 0..MaxCap, com with n, k in 0..MaxCap
MaxCap == 14

\* phis is handed slices of 0..MaxParts ids, each in 0..MaxId
MaxParts == 3
MaxId == 9

\* the driver of Spec makes at most MaxCalls calls
MaxCalls == 4
\* make_poly is called with k in 0..MaxK
MaxK == 3
\* an input of a simulation is the value the code gives it or one of its
\* MaxShift successors in the field
MaxShift == 1

\* a player of SpecPoly is built with at most MaxRands coefficients
MaxRands == 2

\* SpecWord scales the machine word down from UsizeBits to WordBits bits
WordBits == 4

\* type M = ModInt<17>
ZMOD == 17
\* the width of usize on the 64-bit targets the crate is built for
UsizeBits == 64

NoFailure == "none"
ZeroDivision == "0 division occured."
RemByZero == "attempt to calculate the remainder with a divisor of zero"
SubOverflow == "attempt to subtract with overflow"
InvalidParticipants == "Invalid participants"
UnwrapNone == "called Option::unwrap on a None value"
IndexOutOfBounds == "index out of bounds"

Moduli == 2..MaxMod

IsPrime(m) == m >= 2 /\ \A d \in 2..(m - 1) : m % d # 0

(***************************************************************************)
(* ModInt<MOD>  (src/src/lib.rs)                                           *)
(***************************************************************************)

\* usize::from_str_radix on a string of digits: Err (here -1) on an empty
\* string or a digit that is no digit of the radix, else the number read.
RECURSIVE usize_from_str_radix(_, _, _)
usize_from_str_radix(digits, radix, acc) ==
    IF digits = <<>> THEN acc
    ELSE IF Head(digits) >= radix THEN -1
    ELSE usize_from_str_radix(Tail(digits), radix, acc * radix + Head(digits))

\* ModInt::from_str_radix: Ok(Self { val }) with the parsed number as it is.
from_str_radix(digits, radix) ==
    IF digits = <<>> THEN -1 ELSE usize_from_str_radix(digits, radix, 0)

\* From<I: Into<usize>>: val = n.into() % MOD
from(n) == n % MOD

\* ModInt::new
new(n) == n % MOD

\* ModInt::val
val(a) == a % MOD

\* ModInt::_set_val
set_val(a, n) == n % MOD

\* the while loop of pow_u
RECURSIVE pow_u_loop(_, _, _)
pow_u_loop(v, res, n) ==
    IF n > 0
    THEN pow_u_loop((v * v) % MOD, IF n % 2 = 1 THEN (res * v) % MOD ELSE res, n \div 2)
    ELSE res

pow_u(a, n) == pow_u_loop(a, 1, n)

pow(a, b) == pow_u(a, b)

\* the exponent taken one too large (the order of the group, not MOD - 2)
inv_exponent_off_by_one(a) == pow_u(a, MOD - 1)

inv(a) == pow_u(a, MOD - 2)

add(a, b) == (a + b) % MOD

add_assign(a, b) == (a + b) % MOD

mul(a, b) == (a * b) % MOD

mul_assign(a, b) == (a * b) % MOD

\* the subtraction without the borrow of MOD
sub_without_borrow(a, b) == a - (b % MOD)

\* Sub::sub: self.val - other.val % MOD is self.val - (other.val % MOD)
sub(a, b) ==
    LET s == IF a < b THEN a + MOD ELSE a
    IN  s - (b % MOD)

\* SubAssign::sub_assign underflows when self.val + MOD < other.val
sub_assign_underflows(a, b) == (IF a < b THEN a + MOD ELSE a) < b

\* 2^n % MOD, for the value a wrapped usize subtraction leaves
RECURSIVE pow2_mod(_)
pow2_mod(n) == IF n = 0 THEN 1 % MOD ELSE (2 * pow2_mod(n - 1)) % MOD

\* (self.val - other.val) % MOD; an underflowing subtraction wraps modulo
\* 2^UsizeBits in a build without overflow checks
sub_assign(a, b) ==
    LET s == IF a < b THEN a + MOD ELSE a
    IN  IF s >= b THEN (s - b) % MOD
        ELSE (pow2_mod(UsizeBits) + MOD - ((b - s) % MOD)) % MOD

\* the guard of Div::div and DivAssign::div_assign
div_panics(a, b) == b = 0

div(a, b) == mul(a, inv(b))

div_assign(a, b) == mul_assign(a, inv(b))

\* usize % 0 panics
rem_panics(a, b) == b = 0

rem(a, b) == (a % b) % MOD

rem_assign(a, b) == (a % b) % MOD

zero == 0

one == 1

is_zero(a) == a = 0

set_zero(a) == 0

is_one(a) == a = 1

set_one(a) == 1

(***************************************************************************)
(* ModCom<MOD>  (src/src/lib.rs).  The vectors are functions on 0..cap-1.  *)
(***************************************************************************)

\* vec![0; cap]
vec_zero(cap) == [i \in 0..(cap - 1) |-> 0]

\* fac[0] = 1; fac[1] = 1; ... index a vector of fewer than two entries
modcom_new_panics(cap) == cap < 2

\* the recurrence with the subtraction from MOD left out
modcom_inv_without_negation(invs, i) == (invs[MOD % i] * (MOD \div i)) % MOD

\* inv[i] = MOD - inv[MOD % i] * (MOD / i) % MOD
modcom_inv(invs, i) == MOD - ((invs[MOD % i] * (MOD \div i)) % MOD)

\* for i in 2..cap { ... }
RECURSIVE modcom_loop(_, _, _, _, _)
modcom_loop(i, cap, fac, finv, invs) ==
    IF i >= cap THEN [built |-> TRUE, cap |-> cap, fac |-> fac, finv |-> finv]
    ELSE LET fac2 == [fac EXCEPT ![i] = (fac[i - 1] * i) % MOD]
             invs2 == [invs EXCEPT ![i] = modcom_inv(invs, i)]
             finv2 == [finv EXCEPT ![i] = (finv[i - 1] * invs2[i]) % MOD]
         IN  modcom_loop(i + 1, cap, fac2, finv2, invs2)

\* ModCom::new, for cap >= 2
modcom_new(cap) ==
    modcom_loop(2, cap,
                [vec_zero(cap) EXCEPT ![0] = 1, ![1] = 1],
                [vec_zero(cap) EXCEPT ![0] = 1, ![1] = 1],
                [vec_zero(cap) EXCEPT ![1] = 1])

\* self.fac[n] indexes past the table
modcom_com_panics(c, n, k) == n >= k /\ n >= c.cap

\* ModCom::com, for n < k or n < cap
modcom_com(c, n, k) ==
    IF n < k THEN 0
    ELSE (c.fac[n] * ((c.finv[k] * c.finv[n - k]) % MOD)) % MOD

(***************************************************************************)
(* phis  (src/src/main.rs), over T = ModInt<MOD>.  A HashMap is a function *)
(* on its key set; a slice is a sequence.                                  *)
(***************************************************************************)

\* HashMap::new()
hashmap_new == <<>>

\* an insert that forgets every other entry
insert_only(m, k, v) == [kk \in {k} |-> v]

\* HashMap::insert: the entry of key k is set, whether k was a key or not
insert(m, k, v) == [kk \in (DOMAIN m) \cup {k} |-> IF kk = k THEN v ELSE m[kk]]

\* the two ids compared as u16 instead of as field elements
same_point_by_id(ps, i, j) == ps[i] = ps[j]

\* if p == q, with p and q the ids converted into T
same_point(ps, i, j) == from(ps[i]) = from(ps[j])

\* the inner loop with the numerator q in place of 0 - q
RECURSIVE phis_inner_positive_numerator(_, _, _, _)
phis_inner_positive_numerator(ps, i, j, r) ==
    IF j > Len(ps) THEN [failure |-> NoFailure, r |-> r]
    ELSE IF i = j THEN phis_inner_positive_numerator(ps, i, j + 1, r)
    ELSE IF same_point(ps, i, j) THEN [failure |-> InvalidParticipants, r |-> r]
    ELSE LET p == from(ps[i])
             q == from(ps[j])
             den == sub(p, q)
         IN  IF div_panics(q, den) THEN [failure |-> ZeroDivision, r |-> r]
             ELSE phis_inner_positive_numerator(ps, i, j + 1, mul_assign(r, div(q, den)))

\* the inner loop of phis from position j on, r being the product so far:
\* the weight of ps[i], or the panic that ended the loop
RECURSIVE phis_inner(_, _, _, _)
phis_inner(ps, i, j, r) ==
    IF j > Len(ps) THEN [failure |-> NoFailure, r |-> r]
    ELSE IF i = j THEN phis_inner(ps, i, j + 1, r)
    ELSE IF same_point(ps, i, j) THEN [failure |-> InvalidParticipants, r |-> r]
    ELSE LET p == from(ps[i])
             q == from(ps[j])
             num == sub(zero, q)
             den == sub(p, q)
         IN  IF div_panics(num, den) THEN [failure |-> ZeroDivision, r |-> r]
             ELSE phis_inner(ps, i, j + 1, mul_assign(r, div(num, den)))

\* the outer loop of phis from position i on, res being the map so far
RECURSIVE phis_outer(_, _, _)
phis_outer(ps, i, res) ==
    IF i > Len(ps) THEN [failure |-> NoFailure, res |-> res]
    ELSE LET w == phis_inner(ps, i, 1, one)
         IN  IF w.failure # NoFailure THEN [failure |-> w.failure, res |-> res]
             ELSE phis_outer(ps, i + 1, insert(res, ps[i], w.r))

\* phis(parts): [failure |-> NoFailure, res |-> the map returned], or the
\* panic raised
phis(ps) == phis_outer(ps, 1, hashmap_new)

(***************************************************************************)
(* Player<T>  (src/src/main.rs), over T = ModInt<MOD>.                     *)
(***************************************************************************)

\* poly: None
NoPoly == [some |-> FALSE]

\* Player::new
player_new(id, secret, rands) ==
    [id |-> id, secret |-> secret, rands |-> rands, poly |-> NoPoly,
     shares |-> hashmap_new, folded_share |-> zero]

\* the closure make_poly boxes: it owns the secret and a clone of rands, and k
closure(secret, rands, k) ==
    [some |-> TRUE, secret |-> secret, rands |-> rands, k |-> k]

\* k - 1 saturating at 0: make_poly(0) answered with the constant polynomial
closure_panics_saturating(poly) ==
    IF poly.k = 0 THEN {}
    ELSE IF poly.k - 1 > Len(poly.rands) THEN {IndexOutOfBounds}
    ELSE {}

\* the panics a call of the closure can end in: k - 1 underflows for k = 0
\* (a panic with overflow checks; without them the loop runs until rands[i]
\* is out of bounds), and rands[i] is out of bounds when k - 1 > rands.len()
closure_panics(poly) ==
    IF poly.k = 0 THEN {SubOverflow, IndexOutOfBounds}
    ELSE IF poly.k - 1 > Len(poly.rands) THEN {IndexOutOfBounds}
    ELSE {}

\* the loop running over all of rands, whatever k is
RECURSIVE closure_loop_all_rands(_, _, _, _, _)
closure_loop_all_rands(poly, i, res, xn, xv) ==
    IF i >= Len(poly.rands) THEN res
    ELSE closure_loop_all_rands(poly, i + 1,
                                add_assign(res, mul(poly.rands[i + 1], xn)),
                                mul_assign(xn, xv), xv)

\* the loop adding the powers of x without the coefficients
RECURSIVE closure_loop_without_rands(_, _, _, _, _)
closure_loop_without_rands(poly, i, res, xn, xv) ==
    IF i >= poly.k - 1 THEN res
    ELSE closure_loop_without_rands(poly, i + 1, add_assign(res, xn),
                                    mul_assign(xn, xv), xv)

\* for i in 0..(k - 1) { res += rands[i] * xn; xn *= x; }
RECURSIVE closure_loop(_, _, _, _, _)
closure_loop(poly, i, res, xn, xv) ==
    IF i >= poly.k - 1 THEN res
    ELSE closure_loop(poly, i + 1,
                      add_assign(res, mul(poly.rands[i + 1], xn)),
                      mul_assign(xn, xv), xv)

\* the closure with xn starting from one instead of from x
closure_call_from_one(poly, xv) == closure_loop(poly, 0, poly.secret, one, xv)

\* the closure answering with the secret at every point
closure_call_constant(poly, xv) == poly.secret

\* the closure called on xv, for a closure that does not panic
closure_call(poly, xv) == closure_loop(poly, 0, poly.secret, xv, xv)

\* a missing polynomial answered with the default value instead of a panic
give_share_or_default(q, opposite_id) ==
    IF ~q.poly.some THEN [failures |-> {}, ret |-> zero]
    ELSE [failures |-> closure_panics(q.poly),
          ret |-> IF closure_panics(q.poly) = {} THEN closure_call(q.poly, from(opposite_id))
                  ELSE zero]

\* a give_share whose value depends on the giver's folded share
give_share_plus_folded(q, opposite_id) ==
    IF ~q.poly.some THEN [failures |-> {UnwrapNone}, ret |-> zero]
    ELSE [failures |-> closure_panics(q.poly),
          ret |-> IF closure_panics(q.poly) = {}
                  THEN add(closure_call(q.poly, from(opposite_id)), q.folded_share)
                  ELSE zero]

\* a give_share that evaluates the polynomial at the id after the recipient's
give_share_at_next_id(q, opposite_id) ==
    IF ~q.poly.some THEN [failures |-> {UnwrapNone}, ret |-> zero]
    ELSE [failures |-> closure_panics(q.poly),
          ret |-> IF closure_panics(q.poly) = {}
                  THEN closure_call(q.poly, from(opposite_id + 1))
                  ELSE zero]

\* Player::give_share: the panics it can end in (none: it returns ret)
give_share(q, opposite_id) ==
    IF ~q.poly.some THEN [failures |-> {UnwrapNone}, ret |-> zero]
    ELSE [failures |-> closure_panics(q.poly),
          ret |-> IF closure_panics(q.poly) = {} THEN closure_call(q.poly, from(opposite_id))
                  ELSE zero]

\* the closures handed to fold_share
SumFold == [kind |-> "sum"]
ProductFold == [kind |-> "product"]
\* the weighted closure with the weights dropped
UnweightedFold(w) == [kind |-> "sum", w |-> w]
WeightedFold(w) == [kind |-> "weighted", w |-> w]

\* the accumulator a fold starts from
fold_init(m) == IF m.kind = "product" THEN one ELSE zero

\* a reduction that keeps the first entry visited
fold_loop_first(shares, m, order, acc) ==
    [failure |-> NoFailure, v |-> IF order = <<>> THEN acc ELSE shares[Head(order)]]

\* the fold over the entries of shares visited in the given order: the panic
\* it ends in (phs.get(k).unwrap() on a missing key) or the value v
RECURSIVE fold_loop(_, _, _, _)
fold_loop(shares, m, order, acc) ==
    IF order = <<>> THEN [failure |-> NoFailure, v |-> acc]
    ELSE LET k == Head(order)
             e == shares[k]
         IN  CASE m.kind = "sum" -> fold_loop(shares, m, Tail(order), add(acc, e))
               [] m.kind = "product" -> fold_loop(shares, m, Tail(order), mul(acc, e))
               [] m.kind = "weighted" ->
                    IF k \notin DOMAIN m.w THEN [failure |-> UnwrapNone, v |-> acc]
                    ELSE fold_loop(shares, m, Tail(order), add(acc, mul(m.w[k], e)))

\* the orders in which a HashMap with key set S can be iterated
Orders(S) ==
    {o \in [1..Cardinality(S) -> S] : \A i, j \in 1..Cardinality(S) : i # j => o[i] # o[j]}

\* self.make_poly(k), self being the player held in variable v
DoMakePoly(v, k) ==
    LET p == players[v]
        poly == closure(p.secret, p.rands, k)
    IN  /\ lastOp' = [name |-> "make_poly", p |-> v, k |-> k]
        /\ IF closure_panics(poly) = {}
           THEN /\ failure' = NoFailure
                /\ players' = [players EXCEPT
                                 ![v].poly = poly,
                                 ![v].shares = insert(@, p.id, closure_call(poly, from(p.id)))]
           ELSE /\ \E msg \in closure_panics(poly) : failure' = msg
                /\ players' = [players EXCEPT ![v].poly = poly]

\* players[v].give_share(t)
DoGiveShare(v, t) ==
    LET r == give_share(players[v], t)
    IN  /\ players' = players
        /\ IF r.failures = {}
           THEN /\ failure' = NoFailure
                /\ lastOp' = [name |-> "give_share", q |-> v, t |-> t,
                              ok |-> TRUE, ret |-> r.ret]
           ELSE /\ \E msg \in r.failures : failure' = msg
                /\ lastOp' = [name |-> "give_share", q |-> v, t |-> t,
                              ok |-> FALSE, ret |-> zero]

\* players[v].recieve_share(&players[w]); the borrow rules keep v # w
DoRecieveShare(v, w) ==
    LET p == players[v]
        q == players[w]
        r == give_share(q, p.id)
    IN  /\ lastOp' = [name |-> "recieve_share", p |-> v, q |-> w]
        /\ IF r.failures = {}
           THEN /\ failure' = NoFailure
                /\ players' = [players EXCEPT ![v].shares = insert(@, q.id, r.ret)]
           ELSE /\ \E msg \in r.failures : failure' = msg
                /\ players' = players

\* players[v].fold_share(m); the HashMap is iterated in any order
DoFoldShare(v, m) ==
    \E order \in Orders(DOMAIN players[v].shares) :
        LET r == fold_loop(players[v].shares, m, order, fold_init(m))
        IN  /\ lastOp' = [name |-> "fold_share", p |-> v, kind |-> m.kind]
            /\ failure' = r.failure
            /\ players' = IF r.failure = NoFailure
                          THEN [players EXCEPT ![v].folded_share = r.v]
                          ELSE players

(***************************************************************************)
(* SpecField: a driver that builds ModInt values and applies the public    *)
(* operations to them in any order.  x is the receiver, y the argument;    *)
(* both only ever hold values the public interface produced.               *)
(***************************************************************************)
NoCom == [built |-> FALSE]
NoOp == [name |-> "none"]

\* binary strings, and the character '2' that is no binary digit
Radices == {2}
Digits == {0, 1, 2}
DigitStrings == UNION {[1..n -> Digits] : n \in 0..MaxDigits}

\* let x = zero(); let y = zero();
InitField ==
    /\ MOD \in Moduli
    /\ x = zero
    /\ y = zero
    /\ lastOp = NoOp
    /\ failure = NoFailure
    /\ com = NoCom
    /\ parts = <<>>
    /\ players = <<>>
    /\ phs = <<>>
    /\ out = <<>>
    /\ pc = 0

Running == failure = NoFailure

fieldFrame == UNCHANGED <<MOD, com, parts, players, phs, out, pc>>

\* the call on x (and y) returned r, now held in x
ReturnX(name, r, n) ==
    /\ x' = r
    /\ y' = y
    /\ lastOp' = [name |-> name, a |-> x, b |-> y, n |-> n, ok |-> TRUE]
    /\ failure' = NoFailure
    /\ fieldFrame

\* the setter call left r in x
SetX(name, r, n) ==
    /\ x' = r
    /\ y' = y
    /\ lastOp' = [name |-> name, n |-> n, ok |-> TRUE]
    /\ failure' = NoFailure
    /\ fieldFrame

\* the constructor call returned r, now held in y
ReturnY(name, r, n) ==
    /\ x' = x
    /\ y' = r
    /\ lastOp' = [name |-> name, n |-> n, ok |-> TRUE]
    /\ failure' = NoFailure
    /\ fieldFrame

\* the call panicked with msg
Panic(name, msg, n) ==
    /\ UNCHANGED fieldVars
    /\ lastOp' = [name |-> name, a |-> x, b |-> y, n |-> n, ok |-> FALSE]
    /\ failure' = msg
    /\ fieldFrame

FNew == Running /\ \E n \in 0..MaxInt : ReturnY("new", new(n), n)

FFrom == Running /\ \E n \in 0..MaxInt : ReturnY("from", from(n), n)

FFromStrRadix ==
    /\ Running
    /\ \E digits \in DigitStrings, radix \in Radices :
          LET r == from_str_radix(digits, radix)
          IN  IF r = -1
              THEN /\ UNCHANGED fieldVars
                   /\ lastOp' = [name |-> "from_str_radix", n |-> radix, ok |-> FALSE]
                   /\ failure' = NoFailure
                   /\ fieldFrame
              ELSE ReturnY("from_str_radix", r, radix)

FZero == Running /\ ReturnY("zero", zero, 0)

FOne == Running /\ ReturnY("one", one, 0)

\* let x = y;  (ModInt is Copy)
FCopy == Running /\ SetX("copy", y, 0)

FSetVal == Running /\ \E n \in 0..MaxInt : SetX("_set_val", set_val(x, n), n)

FSetZero == Running /\ SetX("set_zero", set_zero(x), 0)

FSetOne == Running /\ SetX("set_one", set_one(x), 0)

FAdd == Running /\ ReturnX("add", add(x, y), 0)

FAddAssign == Running /\ ReturnX("add_assign", add_assign(x, y), 0)

FSub == Running /\ ReturnX("sub", sub(x, y), 0)

\* an underflowing usize subtraction panics in a build with overflow checks
\* and wraps in one without
FSubAssign ==
    /\ Running
    /\ \/ ReturnX("sub_assign", sub_assign(x, y), 0)
       \/ /\ sub_assign_underflows(x, y)
          /\ Panic("sub_assign", SubOverflow, 0)

FMul == Running /\ ReturnX("mul", mul(x, y), 0)

FMulAssign == Running /\ ReturnX("mul_assign", mul_assign(x, y), 0)

FDiv ==
    /\ Running
    /\ IF div_panics(x, y)
       THEN Panic("div", ZeroDivision, 0)
       ELSE ReturnX("div", div(x, y), 0)

FDivAssign ==
    /\ Running
    /\ IF div_panics(x, y)
       THEN Panic("div_assign", ZeroDivision, 0)
       ELSE ReturnX("div_assign", div_assign(x, y), 0)

FRem ==
    /\ Running
    /\ IF rem_panics(x, y)
       THEN Panic("rem", RemByZero, 0)
       ELSE ReturnX("rem", rem(x, y), 0)

FRemAssign ==
    /\ Running
    /\ IF rem_panics(x, y)
       THEN Panic("rem_assign", RemByZero, 0)
       ELSE ReturnX("rem_assign", rem_assign(x, y), 0)

FPowU == Running /\ \E n \in 0..MaxInt : ReturnX("pow_u", pow_u(x, n), n)

FPow == Running /\ ReturnX("pow", pow(x, y), 0)

FInv == Running /\ ReturnX("inv", inv(x), 0)

NextField ==
    \/ FNew \/ FFrom \/ FFromStrRadix \/ FZero \/ FOne \/ FCopy
    \/ FSetVal \/ FSetZero \/ FSetOne
    \/ FAdd \/ FAddAssign \/ FSub \/ FSubAssign \/ FMul \/ FMulAssign
    \/ FDiv \/ FDivAssign \/ FRem \/ FRemAssign
    \/ FPowU \/ FPow \/ FInv

SpecField == InitField /\ [][NextField]_vars

(***************************************************************************)
(* Claims about ModInt, checked under SpecField.                           *)
(***************************************************************************)
InRange(a) == a \in 0..(MOD - 1)

BinaryOp(names) ==
    /\ lastOp.name \in names
    /\ InRange(lastOp.a)
    /\ InRange(lastOp.b)

\* a^n mod MOD by n multiplications, over the integers
RECURSIVE NaivePow(_, _)
NaivePow(a, n) == IF n = 0 THEN 1 % MOD ELSE (a * NaivePow(a, n - 1)) % MOD

\* C3: every ModInt the public constructors and operations produce has its
\* stored value in [0, MOD).
C3_StoredValueInRange == InRange(x) /\ InRange(y)

\* C4: division by zero is an error for both operations: a / ModInt(0) (and
\* a /= ModInt(0)) panics for every a, and ModInt(0).inv() panics instead of
\* returning a value.
C4_ZeroDivisionFails ==
    /\ lastOp.name \in {"div", "div_assign"} /\ lastOp.b = zero
          => failure = ZeroDivision
    /\ lastOp.name = "inv" /\ lastOp.a = zero
          => failure = ZeroDivision

\* C5: for a prime MOD and every a in [1, MOD), a * a.inv() is one, inv being
\* a^(MOD-2) as square-and-multiply computes it; and (a / b) * b = a for every
\* a in the field and every nonzero b.
C5_InverseCorrect ==
    IsPrime(MOD) =>
        /\ lastOp.name = "inv" /\ lastOp.a \in 1..(MOD - 1)
              => /\ failure = NoFailure
                 /\ x = NaivePow(lastOp.a, MOD - 2)
                 /\ mul(lastOp.a, x) = one
        /\ lastOp.name = "pow_u" /\ InRange(lastOp.a)
              => x = NaivePow(lastOp.a, lastOp.n)
        /\ BinaryOp({"div", "div_assign"}) /\ lastOp.b # zero
              => /\ failure = NoFailure
                 /\ mul(x, lastOp.b) = lastOp.a

\* C5 witness: over a prime modulus above 10, a quotient a / b of two field
\* elements other than zero and one was computed.
C5_Witness ==
    /\ IsPrime(MOD) /\ MOD > 10
    /\ BinaryOp({"div"})
    /\ lastOp.a > 1 /\ lastOp.b > 1 /\ lastOp.a # lastOp.b
    /\ failure = NoFailure
    /\ x > 1

\* C10: for a, b in [0, MOD), add, sub and mul and their assigning forms
\* return (a + b) mod MOD, (a - b) mod MOD and (a * b) mod MOD as computed over
\* the integers, each in [0, MOD), and no subtraction underflows.
C10_AddSubMulExact ==
    /\ BinaryOp({"add", "add_assign"})
          => failure = NoFailure /\ InRange(x) /\ x = (lastOp.a + lastOp.b) % MOD
    /\ BinaryOp({"sub", "sub_assign"})
          => failure = NoFailure /\ InRange(x) /\ x = (lastOp.a - lastOp.b) % MOD
    /\ BinaryOp({"mul", "mul_assign"})
          => failure = NoFailure /\ InRange(x) /\ x = (lastOp.a * lastOp.b) % MOD

\* C10 witness: a subtraction a - b with a < b borrowed MOD.
C10_Witness ==
    /\ BinaryOp({"sub"})
    /\ lastOp.a < lastOp.b
    /\ lastOp.a > 0
    /\ failure = NoFailure
    /\ x = lastOp.a + MOD - lastOp.b

(***************************************************************************)
(* SpecCom: a driver that builds one ModCom and queries it.                *)
(***************************************************************************)
InitCom ==
    /\ MOD \in Moduli
    /\ com = NoCom
    /\ lastOp = NoOp
    /\ failure = NoFailure
    /\ x = zero
    /\ y = zero
    /\ parts = <<>>
    /\ players = <<>>
    /\ phs = <<>>
    /\ out = <<>>
    /\ pc = 0

comFrame == UNCHANGED <<MOD, x, y, parts, players, phs, out, pc>>

\* let com = ModCom::<MOD>::new(cap);
ComNew ==
    /\ Running
    /\ ~com.built
    /\ \E cap \in 0..MaxCap :
          /\ lastOp' = [name |-> "ModCom::new", cap |-> cap]
          /\ IF modcom_new_panics(cap)
             THEN failure' = IndexOutOfBounds /\ com' = com
             ELSE failure' = NoFailure /\ com' = modcom_new(cap)
    /\ comFrame

\* com.com(n, k)
ComCom ==
    /\ Running
    /\ com.built
    /\ \E n \in 0..MaxCap, k \in 0..MaxCap :
          IF modcom_com_panics(com, n, k)
          THEN /\ failure' = IndexOutOfBounds
               /\ lastOp' = [name |-> "com", n |-> n, k |-> k, res |-> 0, ok |-> FALSE]
          ELSE /\ failure' = NoFailure
               /\ lastOp' = [name |-> "com", n |-> n, k |-> k,
                             res |-> modcom_com(com, n, k), ok |-> TRUE]
    /\ com' = com
    /\ comFrame

NextCom == ComNew \/ ComCom

SpecCom == InitCom /\ [][NextCom]_vars

\* the binomial coefficient n! / (k! (n-k)!) over the integers, for k <= n,
\* by C(n, k) = C(n, k-1) * (n-k+1) / k (every division is exact)
RECURSIVE Binomial(_, _)
Binomial(n, k) ==
    IF k = 0 THEN 1 ELSE (Binomial(n, k - 1) * (n - k + 1)) \div k

\* C9: for a prime MOD and 2 <= cap <= MOD, ModCom::new(cap).com(n, k) is the
\* binomial coefficient n!/(k!(n-k)!) reduced mod MOD for 0 <= k <= n < cap
\* (so com(n, 0) = 1), and 0 whenever n < k.
C9_ComIsBinomial ==
    (/\ IsPrime(MOD)
     /\ com.built
     /\ com.cap <= MOD
     /\ lastOp.name = "com")
    => /\ lastOp.n < lastOp.k
          => failure = NoFailure /\ lastOp.res = 0
       /\ lastOp.k <= lastOp.n /\ lastOp.n < com.cap
          => /\ failure = NoFailure
             /\ lastOp.res = Binomial(lastOp.n, lastOp.k) % MOD
             /\ lastOp.k = 0 => lastOp.res = 1

\* C9 witness: a table of capacity MOD answered com(n, k) for an inner
\* coefficient whose integer value exceeds MOD.
C9_Witness ==
    /\ IsPrime(MOD)
    /\ com.built
    /\ com.cap = MOD
    /\ lastOp.name = "com"
    /\ lastOp.ok
    /\ lastOp.k >= 2
    /\ lastOp.n >= lastOp.k + 2
    /\ Binomial(lastOp.n, lastOp.k) > MOD
    /\ lastOp.res = Binomial(lastOp.n, lastOp.k) % MOD
    /\ lastOp.res > 1

(***************************************************************************)
(* SpecPhis: phis called once on a slice of ids.                           *)
(***************************************************************************)
Slices == UNION {[1..n -> 0..MaxId] : n \in 0..MaxParts}

InitPhis ==
    /\ MOD \in Moduli
    /\ parts \in Slices
    /\ phs = <<>>
    /\ pc = 0
    /\ lastOp = NoOp
    /\ failure = NoFailure
    /\ x = zero
    /\ y = zero
    /\ com = NoCom
    /\ players = <<>>
    /\ out = <<>>

\* let phs: HashMap<u16, M> = phis(&parts);
PhisCall ==
    /\ Running
    /\ pc = 0
    /\ LET r == phis(parts)
       IN  /\ failure' = r.failure
           /\ phs' = IF r.failure = NoFailure THEN [phs |-> r.res] ELSE phs
    /\ pc' = 1
    /\ lastOp' = [name |-> "phis"]
    /\ UNCHANGED <<MOD, x, y, com, parts, players, out>>

NextPhis == PhisCall

SpecPhis == InitPhis /\ [][NextPhis]_vars

\* two entries at different positions are equal as field elements
HasDuplicatePoint(ps) ==
    \E i \in 1..Len(ps), j \in 1..Len(ps) : i # j /\ ps[i] % MOD = ps[j] % MOD

\* C6: for every list of points with two entries at different positions that
\* are equal as field elements (the same id, or two ids congruent modulo MOD),
\* phis fails with "Invalid participants" and returns no weights; the failure
\* is never the field's zero-division failure.
C6_DuplicatePointsRejected ==
    (lastOp.name = "phis" /\ HasDuplicatePoint(parts))
    => /\ failure = InvalidParticipants
       /\ failure # ZeroDivision
       /\ phs = <<>>

\* C6 witness: phis was called on three ids of which the last two differ as
\* u16 and are congruent modulo MOD, after a first id distinct from both.
C6_Witness ==
    /\ lastOp.name = "phis"
    /\ Len(parts) = 3
    /\ parts[2] # parts[3]
    /\ parts[2] % MOD = parts[3] % MOD
    /\ parts[1] % MOD # parts[2] % MOD
    /\ failure = InvalidParticipants

(***************************************************************************)
(* Spec: three players built as the simulations build them, and a driver   *)
(* that calls make_poly, give_share, recieve_share and fold_share on them  *)
(* in any order, MaxCalls times at most.                                   *)
(***************************************************************************)
\* the value c of the code and its MaxShift successors in the field
Near(c) == {(c + d) % ZMOD : d \in 0..MaxShift}

PlayerVars == {"player1", "player2", "player3"}

\* let mut player1 = Player::new(1, M::new(2), vec![M::new(5)]); ...
Init ==
    /\ MOD = ZMOD
    /\ \E s1 \in Near(2), r1 \in Near(5) :
          players = [v \in PlayerVars |->
                       CASE v = "player1" -> player_new(1, new(s1), <<new(r1)>>)
                         [] v = "player2" -> player_new(2, new(4), <<new(3)>>)
                         [] v = "player3" -> player_new(3, new(6), <<new(7)>>)]
    /\ pc = [prog |-> "any", at |-> 0]
    /\ lastOp = NoOp
    /\ failure = NoFailure
    /\ phs = <<>>
    /\ out = <<>>
    /\ x = zero
    /\ y = zero
    /\ com = NoCom
    /\ parts = <<>>

\* the driver makes one more call
Call ==
    /\ Running
    /\ pc.at < MaxCalls
    /\ pc' = [pc EXCEPT !.at = @ + 1]
    /\ UNCHANGED <<MOD, x, y, com, parts, phs, out>>

MakePoly == Call /\ \E v \in PlayerVars, k \in 0..MaxK : DoMakePoly(v, k)

GiveShare == Call /\ \E v \in PlayerVars, t \in 1..3 : DoGiveShare(v, t)

RecieveShare ==
    Call /\ \E v \in PlayerVars : \E w \in PlayerVars \ {v} : DoRecieveShare(v, w)

FoldShare == Call /\ \E v \in PlayerVars, m \in {SumFold, ProductFold} : DoFoldShare(v, m)

Next == MakePoly \/ GiveShare \/ RecieveShare \/ FoldShare

Spec == Init /\ [][Next]_vars

(***************************************************************************)
(* Claims about Player, checked under Spec.                                *)
(***************************************************************************)

\* C7: evaluating a polynomial that was never generated fails: for a player q
\* without a polynomial, q.give_share(t) fails for every t and returns no
\* value, and p.recieve_share(q) fails for every p and leaves p.shares and
\* p.folded_share (and every other player) unchanged; no default share is
\* returned or stored.
C7_MissingPolynomialFails ==
    [][(/\ lastOp'.name \in {"give_share", "recieve_share"}
        /\ ~players[lastOp'.q].poly.some)
       => /\ failure' = UnwrapNone
          /\ players' = players
          /\ lastOp'.name = "give_share" => ~lastOp'.ok]_vars

\* C7 witness: a player that holds a share and a folded share called
\* recieve_share on a player without a polynomial, and the call failed.
C7_Witness ==
    /\ lastOp.name = "recieve_share"
    /\ ~players[lastOp.q].poly.some
    /\ DOMAIN players[lastOp.p].shares # {}
    /\ players[lastOp.p].folded_share # zero
    /\ failure = UnwrapNone

\* C8: fold_share called on a player whose shares mapping is empty fails
\* loudly; it never stores a default or identity value (zero for the sum
\* fold, one for the product fold) as folded_share.
C8_EmptyFoldFails ==
    (lastOp.name = "fold_share" /\ DOMAIN players[lastOp.p].shares = {})
    => failure # NoFailure

(***************************************************************************)
(* SpecAdd and SpecMul: add_simulation and mul_simulation run statement by *)
(* statement.  The literals 2, 5, 4, 3 (and 7, 9, 11 of the second round)  *)
(* are inputs: SpecAdd draws the first four from the whole field, SpecMul  *)
(* draws the secrets from the whole field and each coefficient from the    *)
(* code's value and its MaxShift successors.  The println! statements that *)
(* only show a player are left out: they change nothing.                   *)
(***************************************************************************)
Field == 0..(ZMOD - 1)

SNewStmt(v, id, secrets, rands) ==
    [op |-> "new", var |-> v, id |-> id, secrets |-> secrets, rands |-> rands]
SNewFromStmt(v, id, of, rands) ==
    [op |-> "new_from", var |-> v, id |-> id, of |-> of, rands |-> rands]
SMakePolyStmt(v, k) == [op |-> "make_poly", var |-> v, k |-> k]
SRecieveStmt(v, w) == [op |-> "recieve_share", var |-> v, q |-> w]
SFoldStmt(v, kind, w) == [op |-> "fold_share", var |-> v, kind |-> kind, phs |-> w]
SPhisStmt(v, ps) == [op |-> "phis", var |-> v, parts |-> ps]
SPrintStmt(w, a, b) == [op |-> "println", phs |-> w, a |-> a, b |-> b]

\* the opening exchange with a share requested from player2 too early
FirstRoundEarlyReceive(secrets, rands1, rands2) ==
    << SNewStmt("player1", 1, secrets, rands1),
       SNewStmt("player2", 2, secrets, rands2),
       SNewStmt("player3", 3, {6}, {7}),
       SMakePolyStmt("player1", 2),
       SRecieveStmt("player1", "player2"),
       SMakePolyStmt("player2", 2),
       SRecieveStmt("player2", "player1"),
       SRecieveStmt("player3", "player1"),
       SRecieveStmt("player3", "player2") >>

\* the exchange both simulations open with
FirstRound(secrets, rands1, rands2) ==
    << SNewStmt("player1", 1, secrets, rands1),
       SNewStmt("player2", 2, secrets, rands2),
       SNewStmt("player3", 3, {6}, {7}),
       SMakePolyStmt("player1", 2),
       SMakePolyStmt("player2", 2),
       SRecieveStmt("player1", "player2"),
       SRecieveStmt("player2", "player1"),
       SRecieveStmt("player3", "player1"),
       SRecieveStmt("player3", "player2") >>

PairPhis ==
    << SPhisStmt("phs12", <<"player1", "player2">>),
       SPhisStmt("phs13", <<"player1", "player3">>),
       SPhisStmt("phs23", <<"player2", "player3">>) >>

AddProgram ==
    FirstRound(Field, Field, Field)
    \o PairPhis
    \o << SFoldStmt("player1", "sum", ""),
          SFoldStmt("player2", "sum", ""),
          SFoldStmt("player3", "sum", ""),
          SPrintStmt("phs12", "player1", "player2"),
          SPrintStmt("phs13", "player1", "player3"),
          SPrintStmt("phs23", "player2", "player3") >>

MulProgram ==
    FirstRound(Field, Near(5), Near(3))
    \o << SFoldStmt("player1", "product", ""),
          SFoldStmt("player2", "product", ""),
          SFoldStmt("player3", "product", ""),
          SNewFromStmt("player1_m", 1, "player1", Near(7)),
          SNewFromStmt("player2_m", 2, "player2", Near(9)),
          SNewFromStmt("player3_m", 3, "player3", Near(11)),
          SMakePolyStmt("player1_m", 2),
          SMakePolyStmt("player2_m", 2),
          SMakePolyStmt("player3_m", 2),
          SRecieveStmt("player1_m", "player2_m"),
          SRecieveStmt("player1_m", "player3_m"),
          SRecieveStmt("player2_m", "player1_m"),
          SRecieveStmt("player2_m", "player3_m"),
          SRecieveStmt("player3_m", "player1_m"),
          SRecieveStmt("player3_m", "player2_m"),
          SPhisStmt("phs123", <<"player1", "player2", "player3">>),
          SFoldStmt("player1_m", "weighted", "phs123"),
          SFoldStmt("player2_m", "weighted", "phs123"),
          SFoldStmt("player3_m", "weighted", "phs123") >>
    \o PairPhis
    \o << SPrintStmt("phs12", "player1_m", "player2_m"),
          SPrintStmt("phs13", "player1_m", "player3_m"),
          SPrintStmt("phs23", "player2_m", "player3_m") >>

Program == IF pc.prog = "add" THEN AddProgram ELSE MulProgram

Done == pc.at > Len(Program)

Stmt == Program[pc.at]

InitSim(prog) ==
    /\ MOD = ZMOD
    /\ pc = [prog |-> prog, at |-> 1]
    /\ players = <<>>
    /\ phs = <<>>
    /\ out = <<>>
    /\ lastOp = NoOp
    /\ failure = NoFailure
    /\ x = zero
    /\ y = zero
    /\ com = NoCom
    /\ parts = <<>>

InitAdd == InitSim("add")

InitMul == InitSim("mul")

\* the statement at pc is one of kind op, and control moves past it
Step(op) ==
    /\ Running
    /\ ~Done
    /\ Stmt.op = op
    /\ pc' = [pc EXCEPT !.at = @ + 1]
    /\ UNCHANGED <<MOD, x, y, com, parts>>

\* let mut player = Player::new(id, M::new(secret), vec![M::new(rand)]);
SNew ==
    /\ Step("new")
    /\ \E s \in Stmt.secrets, r \in Stmt.rands :
          players' = insert(players, Stmt.var, player_new(Stmt.id, new(s), <<new(r)>>))
    /\ lastOp' = [name |-> "new", p |-> Stmt.var]
    /\ UNCHANGED <<failure, phs, out>>

\* let mut player_m = Player::new(id, player.folded_share, vec![i.into()]);
SNewFrom ==
    /\ Step("new_from")
    /\ \E r \in Stmt.rands :
          players' = insert(players, Stmt.var,
                            player_new(Stmt.id, players[Stmt.of].folded_share, <<from(r)>>))
    /\ lastOp' = [name |-> "new", p |-> Stmt.var]
    /\ UNCHANGED <<failure, phs, out>>

SMakePoly ==
    /\ Step("make_poly")
    /\ DoMakePoly(Stmt.var, Stmt.k)
    /\ UNCHANGED <<phs, out>>

SRecieveShare ==
    /\ Step("recieve_share")
    /\ DoRecieveShare(Stmt.var, Stmt.q)
    /\ UNCHANGED <<phs, out>>

\* the closure of the statement: the sum, the product, or the sum weighted
\* by the map a phis call returned
StmtFold ==
    CASE Stmt.kind = "sum" -> SumFold
      [] Stmt.kind = "product" -> ProductFold
      [] Stmt.kind = "weighted" -> WeightedFold(phs[Stmt.phs])

SFoldShare ==
    /\ Step("fold_share")
    /\ DoFoldShare(Stmt.var, StmtFold)
    /\ UNCHANGED <<phs, out>>

\* let phs: HashMap<u16, M> = phis(&[a.id, b.id]);
SPhis ==
    /\ Step("phis")
    /\ LET ids == [i \in 1..Len(Stmt.parts) |-> players[Stmt.parts[i]].id]
           r == phis(ids)
       IN  /\ failure' = r.failure
           /\ phs' = IF r.failure = NoFailure THEN insert(phs, Stmt.var, r.res) ELSE phs
    /\ lastOp' = [name |-> "phis", p |-> Stmt.var]
    /\ UNCHANGED <<players, out>>

\* *phs.get(&a.id).unwrap() * a.folded_share + *phs.get(&b.id).unwrap() * b.folded_share
reconstruct2(w, a, b) == add(mul(w[a.id], a.folded_share), mul(w[b.id], b.folded_share))

\* println!("... = {}", <the reconstruction from players a and b>)
SPrint ==
    /\ Step("println")
    /\ LET w == phs[Stmt.phs]
           a == players[Stmt.a]
           b == players[Stmt.b]
       IN  IF a.id \in DOMAIN w /\ b.id \in DOMAIN w
           THEN failure' = NoFailure /\ out' = Append(out, reconstruct2(w, a, b))
           ELSE failure' = UnwrapNone /\ out' = out
    /\ lastOp' = [name |-> "println"]
    /\ UNCHANGED <<players, phs>>

NextSim ==
    \/ SNew \/ SMakePoly \/ SRecieveShare \/ SFoldShare \/ SPhis \/ SPrint

NextAdd == NextSim

NextMul == NextSim \/ SNewFrom

SpecAdd == InitAdd /\ [][NextAdd]_vars

SpecMul == InitMul /\ [][NextMul]_vars

(***************************************************************************)
(* Claims about the two simulations.                                       *)
(***************************************************************************)

\* sum over the players of order of phis(their ids)[id] * folded_share,
\* from position i on
RECURSIVE weighted_sum(_, _, _, _)
weighted_sum(w, order, i, acc) ==
    IF i > Len(order) THEN acc
    ELSE weighted_sum(w, order, i + 1,
                      add(acc, mul(w[players[order[i]].id], players[order[i]].folded_share)))

\* the Lagrange reconstruction from the players of order; -1 when phis fails
Reconstruction(order) ==
    LET r == phis([i \in 1..Len(order) |-> players[order[i]].id])
    IN  IF r.failure # NoFailure THEN -1 ELSE weighted_sum(r.res, order, 1, zero)

\* the players of Q listed by ascending id, as the simulations list them
Ascending(Q) ==
    {o \in Orders(Q) : \A i, j \in 1..Len(o) : i < j => players[o[i]].id < players[o[j]].id}

\* the subsets of the players S that reach the threshold k = 2
Quorums(S) == UNION {Ascending(Q) : Q \in {R \in SUBSET S : Cardinality(R) >= 2}}

\* the 2-of-3 subsets of S, in any order
Pairs(S) == UNION {Orders(Q) : Q \in {R \in SUBSET S : Cardinality(R) = 2}}

\* C1: when add_simulation has run, for any secrets s1, s2 and coefficients
\* a1, a2 of Z_17, the program has not panicked, the reconstruction from
\* every subset of at least two of the players 1, 2, 3 is (s1 + s2) mod 17,
\* and so are the three values printed.
C1_AdditiveRoundTrip ==
    (pc.prog = "add" /\ Done)
    => LET e == (players["player1"].secret + players["player2"].secret) % ZMOD
       IN  /\ failure = NoFailure
           /\ \A order \in Quorums({"player1", "player2", "player3"}) :
                 Reconstruction(order) = e
           /\ out = <<e, e, e>>

\* the run the source records: secrets 2 and 4, coefficients 5 and 3
C1_Witness ==
    /\ pc.prog = "add" /\ Done
    /\ players["player1"].secret = 2 /\ players["player1"].rands = <<5>>
    /\ players["player2"].secret = 4 /\ players["player2"].rands = <<3>>
    /\ players["player1"].folded_share = 14
    /\ players["player2"].folded_share = 5
    /\ players["player3"].folded_share = 13
    /\ ~players["player3"].poly.some
    /\ Reconstruction(<<"player1", "player2", "player3">>) = 6
    /\ out = <<6, 6, 6>>

\* C2: when mul_simulation has run, for any secrets x, y of Z_17 and the
\* coefficients drawn, the program has not panicked, the reconstruction from
\* the round-2 folded shares of every two of the three players is
\* (x * y) mod 17, and so are the three values printed.
C2_MultiplicationCorrect ==
    (pc.prog = "mul" /\ Done)
    => LET e == (players["player1"].secret * players["player2"].secret) % ZMOD
       IN  /\ failure = NoFailure
           /\ \A order \in Pairs({"player1_m", "player2_m", "player3_m"}) :
                 Reconstruction(order) = e
           /\ out = <<e, e, e>>

\* the run the source records: x = 2, y = 4, coefficients 5, 3 and 7, 9, 11
C2_Witness ==
    /\ pc.prog = "mul" /\ Done
    /\ players["player1"].secret = 2 /\ players["player1"].folded_share = 15
    /\ players["player2"].secret = 4 /\ players["player2"].folded_share = 1
    /\ players["player3"].folded_share = 0
    /\ players["player1_m"].rands = <<7>> /\ players["player1_m"].folded_share = 13
    /\ players["player2_m"].rands = <<9>> /\ players["player2_m"].folded_share = 1
    /\ players["player3_m"].rands = <<11>> /\ players["player3_m"].folded_share = 6
    /\ out = <<8, 8, 8>>

(***************************************************************************)
(* Frame properties of Player, checked under Spec.                         *)
(***************************************************************************)

\* C11: give_share is pure: a call on a player that has a polynomial returns
\* the polynomial's value at t and changes no field of any player; and no
\* give_share, recieve_share or fold_share step changes the value that
\* give_share(t) returns for any player that has a polynomial, so repeated
\* calls with the same t return the same value whatever such steps are
\* interleaved.
C11_GiveSharePure ==
    [][/\ (lastOp'.name = "give_share" /\ lastOp'.ok)
          => /\ players' = players
             /\ lastOp'.ret = closure_call(players[lastOp'.q].poly, from(lastOp'.t))
       /\ (lastOp'.name \in {"give_share", "recieve_share", "fold_share"}
           /\ failure' = NoFailure)
          => \A v \in PlayerVars : \A t \in 1..3 :
                players[v].poly.some
                => give_share(players'[v], t) = give_share(players[v], t)]_vars

\* C11 witness: give_share returned a non-zero value from a player that had
\* already folded its shares into a non-zero folded share.
C11_Witness ==
    /\ lastOp.name = "give_share"
    /\ lastOp.ok
    /\ lastOp.ret # zero
    /\ players[lastOp.q].folded_share # zero
    /\ failure = NoFailure

\* C12: p.recieve_share(q) sets p.shares[q.id] to q's polynomial evaluated at
\* p.id and changes nothing else: the other entries of p.shares, the other
\* fields of p and every other player are as before, so a second receipt
\* from the same sender changes nothing; and no step of any kind removes a
\* key from a player's shares.
C12_RecieveShareFrame ==
    [][/\ (lastOp'.name = "recieve_share" /\ failure' = NoFailure)
          => LET p == lastOp'.p
                 q == lastOp'.q
                 qid == players[q].id
                 e == closure_call(players[q].poly, from(players[p].id))
             IN  /\ DOMAIN players'[p].shares = DOMAIN players[p].shares \cup {qid}
                 /\ players'[p].shares[qid] = e
                 /\ \A k \in DOMAIN players[p].shares \ {qid} :
                       players'[p].shares[k] = players[p].shares[k]
                 /\ [players'[p] EXCEPT !.shares = players[p].shares] = players[p]
                 /\ \A v \in PlayerVars \ {p} : players'[v] = players[v]
                 /\ (qid \in DOMAIN players[p].shares /\ players[p].shares[qid] = e)
                    => players' = players
       /\ \A v \in PlayerVars : DOMAIN players[v].shares \subseteq DOMAIN players'[v].shares]_vars

\* C12 witness: a player holding its own share and a non-zero folded share
\* received a second share from another player.
C12_Witness ==
    /\ lastOp.name = "recieve_share"
    /\ failure = NoFailure
    /\ Cardinality(DOMAIN players[lastOp.p].shares) = 2
    /\ players[lastOp.p].id \in DOMAIN players[lastOp.p].shares
    /\ players[lastOp.p].folded_share # zero

\* C13: the polynomial is fixed once generated: from a player's first
\* make_poly on, no later operation (a further make_poly included) changes
\* the value an evaluation of that player's polynomial returns.
C13_PolynomialFixed ==
    [][\A v \in PlayerVars : \A t \in 1..3 :
          (players[v].poly.some /\ failure' = NoFailure)
          => give_share(players'[v], t) = give_share(players[v], t)]_vars

(***************************************************************************)
(* SpecPoly: one player built from any secret near the code's, any list of *)
(* at most MaxRands coefficients and any of the ids 1..3, on which         *)
(* make_poly and give_share are called in any order.                       *)
(***************************************************************************)
Coefficients == {zero} \cup Near(5)

RandLists == UNION {[1..n -> Coefficients] : n \in 0..MaxRands}

InitPoly ==
    /\ MOD = ZMOD
    /\ \E id \in 1..3, s \in Near(2), rands \in RandLists :
          players = [v \in {"player1"} |-> player_new(id, new(s), rands)]
    /\ pc = [prog |-> "poly", at |-> 0]
    /\ lastOp = NoOp
    /\ failure = NoFailure
    /\ phs = <<>>
    /\ out = <<>>
    /\ x = zero
    /\ y = zero
    /\ com = NoCom
    /\ parts = <<>>

PolyMakePoly == Call /\ \E k \in 0..MaxK : DoMakePoly("player1", k)

\* the recipient id is any u16: 0 and ids beyond the modulus included
PolyGiveShare == Call /\ \E t \in {0, 1, 2, 3, ZMOD, ZMOD + 2} : DoGiveShare("player1", t)

NextPoly == PolyMakePoly \/ PolyGiveShare

SpecPoly == InitPoly /\ [][NextPoly]_vars

\* x^n over the integers
RECURSIVE IntPow(_, _)
IntPow(a, n) == IF n = 0 THEN 1 ELSE a * IntPow(a, n - 1)

\* secret + sum for i = 0..upto of rands[i] * x^(i+1), with rands indexed
\* from 0 as in the source, over the integers
RECURSIVE PolySum(_, _, _, _)
PolySum(secret, rands, upto, xv) ==
    IF upto < 0 THEN secret
    ELSE PolySum(secret, rands, upto - 1, xv) + rands[upto + 1] * IntPow(xv, upto + 1)

\* P(x) = secret + sum for i = 0..k-2 of rands[i] * x^(i+1) in the field
PolyValue(secret, rands, k, xv) == PolySum(secret, rands, k - 2, xv) % MOD

\* C14: make_poly(k) with k >= 1 on a player with at least k-1 coefficients
\* does not fail and installs P(x) = secret + sum for i = 0..k-2 of
\* rands[i] * x^(i+1): the closure returns P(x) at every x of the field,
\* P(0) is the secret, coefficients beyond the first k-1 play no part, and
\* P(id) is stored in the player's own shares under its own id; a later
\* give_share(t) returns P(t).
C14_MakePolyInstallsPolynomial ==
    LET p == players["player1"]
    IN  /\ (lastOp.name = "make_poly" /\ lastOp.k >= 1 /\ Len(p.rands) >= lastOp.k - 1)
           => /\ failure = NoFailure
              /\ p.poly.some
              /\ \A xv \in Field :
                    closure_call(p.poly, xv) = PolyValue(p.secret, p.rands, lastOp.k, xv)
              /\ closure_call(p.poly, zero) = p.secret
              /\ p.id \in DOMAIN p.shares
              /\ p.shares[p.id] = PolyValue(p.secret, p.rands, lastOp.k, from(p.id))
        /\ (lastOp.name = "give_share" /\ lastOp.ok)
           => lastOp.ret = PolyValue(p.poly.secret, p.poly.rands, p.poly.k, from(lastOp.t))

\* C14 witness: make_poly(2) on a player holding two non-zero coefficients:
\* the second one is ignored and the own share is secret + rands[0] * id.
C14_Witness ==
    LET p == players["player1"]
    IN  /\ pc.prog = "poly"
        /\ lastOp.name = "make_poly"
        /\ lastOp.k = 2
        /\ Len(p.rands) = 2
        /\ p.rands[1] # zero /\ p.rands[2] # zero
        /\ p.id = 3
        /\ p.shares[p.id] = (p.secret + p.rands[1] * 3) % ZMOD
        /\ failure = NoFailure

(***************************************************************************)
(* Lagrange weights, checked under SpecPhis.                               *)
(***************************************************************************)

\* the product over the positions j # i, from j on, of 0 - p_j in the field
RECURSIVE NumProduct(_, _, _)
NumProduct(ps, i, j) ==
    IF j > Len(ps) THEN 1
    ELSE IF j = i THEN NumProduct(ps, i, j + 1)
    ELSE (((MOD - (ps[j] % MOD)) % MOD) * NumProduct(ps, i, j + 1)) % MOD

\* the product over the positions j # i, from j on, of p_i - p_j in the field
RECURSIVE DenProduct(_, _, _)
DenProduct(ps, i, j) ==
    IF j > Len(ps) THEN 1
    ELSE IF j = i THEN DenProduct(ps, i, j + 1)
    ELSE ((((ps[i] % MOD) + MOD - (ps[j] % MOD)) % MOD) * DenProduct(ps, i, j + 1)) % MOD

\* w is the weight of ps[i]: w * prod (p_i - p_j) = prod (0 - p_j) in the field
IsWeight(ps, i, w) ==
    /\ w \in 0..(MOD - 1)
    /\ (w * DenProduct(ps, i, 1)) % MOD = NumProduct(ps, i, 1) % MOD

\* the polynomials of degree at most m - 1 with coefficients 0, 1 or -1,
\* as the lists of their coefficients from the constant term up
TestPolynomials(m) == [1..m -> {0, 1, MOD - 1}]

\* f(x) = c[1] + c[2] * x + ... in the field (Horner)
RECURSIVE EvalPoly(_, _, _)
EvalPoly(c, d, xv) ==
    IF d > Len(c) THEN 0 ELSE (c[d] + xv * EvalPoly(c, d + 1, xv)) % MOD

\* sum over the positions from i on of w[ps[i]] * f(ps[i]), in the field
RECURSIVE Interpolate(_, _, _, _)
Interpolate(w, ps, c, i) ==
    IF i > Len(ps) THEN 0
    ELSE (w[ps[i]] * EvalPoly(c, 1, ps[i] % MOD) + Interpolate(w, ps, c, i + 1)) % MOD

\* C15: over a prime MOD, for every list of points that are pairwise distinct
\* as field elements phis returns a mapping whose keys are exactly the input
\* ids, with the weight of p_i the product over j # i of (0 - p_j) / (p_i - p_j),
\* and the sum over i of w_i * f(p_i) is f(0) for every polynomial f of degree
\* at most m - 1 (here: those with coefficients 0, 1 and -1).
C15_LagrangeWeights ==
    (lastOp.name = "phis" /\ IsPrime(MOD) /\ ~HasDuplicatePoint(parts))
    => /\ failure = NoFailure
       /\ DOMAIN phs = {"phs"}
       /\ DOMAIN phs.phs = {parts[i] : i \in 1..Len(parts)}
       /\ \A i \in 1..Len(parts) : IsWeight(parts, i, phs.phs[parts[i]])
       /\ \A c \in TestPolynomials(Len(parts)) :
             Interpolate(phs.phs, parts, c, 1) = (IF c = <<>> THEN 0 ELSE c[1] % MOD)

\* C15 witness: phis(&[1, 2, 3]) over MOD = 13 returned the weights 3, -3, 1.
C15_Witness ==
    /\ lastOp.name = "phis"
    /\ MOD = 13
    /\ parts = <<1, 2, 3>>
    /\ failure = NoFailure
    /\ phs.phs[1] = 3 /\ phs.phs[2] = 10 /\ phs.phs[3] = 1

(***************************************************************************)
(* The threshold boundary, checked under SpecAdd.                          *)
(***************************************************************************)

\* the fold_share statement of the player in variable v has run
Folded(v) ==
    \E i \in 1..(pc.at - 1) : Program[i].op = "fold_share" /\ Program[i].var = v

\* C16: with threshold k = 2 over Z_17, when the last of the three players
\* has folded by sum, the reconstruction from a single participant i is that
\* participant's folded share, weighted by one; it equals the shared sum
\* s1 + s2 exactly when (a1 + a2) * i is zero in the field, so it is wrong
\* for some inputs (the witness), whereas the reconstruction from every two
\* participants is the shared sum for all inputs.
C16_ThresholdBoundary ==
    (/\ pc.prog = "add"
     /\ lastOp.name = "fold_share"
     /\ \A v \in {"player1", "player2", "player3"} : Folded(v))
    => LET e == (players["player1"].secret + players["player2"].secret) % ZMOD
           a == players["player1"].rands[1] + players["player2"].rands[1]
       IN  /\ \A v \in {"player1", "player2", "player3"} :
                 /\ Reconstruction(<<v>>) = players[v].folded_share
                 /\ (Reconstruction(<<v>>) = e) <=> ((a * players[v].id) % ZMOD = 0)
           /\ \A Q \in {R \in SUBSET {"player1", "player2", "player3"} : Cardinality(R) = 2} :
                 \A order \in Ascending(Q) : Reconstruction(order) = e

\* C16 witness: in the run the source records, the value reconstructed from
\* one participant alone is 14, 5 or 13, none of them the sum 6.
C16_Witness ==
    /\ pc.prog = "add"
    /\ lastOp.name = "fold_share"
    /\ players["player1"].secret = 2 /\ players["player1"].rands = <<5>>
    /\ players["player2"].secret = 4 /\ players["player2"].rands = <<3>>
    /\ \A v \in {"player1", "player2", "player3"} : Folded(v)
    /\ Reconstruction(<<"player1">>) = 14
    /\ Reconstruction(<<"player2">>) = 5
    /\ Reconstruction(<<"player3">>) = 13
    /\ Reconstruction(<<"player1", "player2">>) = 6

(***************************************************************************)
(* SpecFold: fold_share called once, with one of the three reductions of   *)
(* the protocol, on player 1 holding any shares under any of the keys 1,   *)
(* 2, 3; phs123 holds the weights phis(&[1, 2, 3]) as in mul_simulation.   *)
(***************************************************************************)
ShareMaps == UNION {[K -> Field] : K \in SUBSET {1, 2, 3}}

InitFold ==
    /\ MOD = ZMOD
    /\ \E shares \in ShareMaps :
          players = [v \in {"player1"} |->
                       [player_new(1, new(2), <<new(5)>>) EXCEPT !.shares = shares]]
    /\ phs = [w \in {"phs123"} |-> phis(<<1, 2, 3>>).res]
    /\ pc = [prog |-> "fold", at |-> 0]
    /\ lastOp = NoOp
    /\ failure = NoFailure
    /\ out = <<>>
    /\ x = zero
    /\ y = zero
    /\ com = NoCom
    /\ parts = <<>>

\* the reductions of the protocol: the weighted sum uses the weights phs123
Reductions == {SumFold, ProductFold, WeightedFold(phs["phs123"])}

FoldOnce ==
    /\ Running
    /\ pc.at = 0
    /\ pc' = [pc EXCEPT !.at = 1]
    /\ \E m \in Reductions : DoFoldShare("player1", m)
    /\ UNCHANGED <<MOD, x, y, com, parts, phs, out>>

NextFold == FoldOnce

SpecFold == InitFold /\ [][NextFold]_vars

\* the reduction the last fold_share was called with
LastReduction ==
    CASE lastOp.kind = "sum" -> SumFold
      [] lastOp.kind = "product" -> ProductFold
      [] lastOp.kind = "weighted" -> WeightedFold(phs["phs123"])

\* C17: fold_share is order-independent for the field sum, the field product
\* and the Lagrange-weighted sum: on the shares of the player that has just
\* folded, each of the three reductions gives the same result for every
\* order in which the entries are visited, and the folded_share stored is
\* that result for the reduction the call was made with.
C17_FoldOrderIndependent ==
    (lastOp.name = "fold_share" /\ failure = NoFailure)
    => LET shares == players[lastOp.p].shares
           first == CHOOSE o \in Orders(DOMAIN shares) : TRUE
       IN  /\ \A m \in Reductions : \A o \in Orders(DOMAIN shares) :
                 fold_loop(shares, m, o, fold_init(m))
                 = fold_loop(shares, m, first, fold_init(m))
           /\ \A o \in Orders(DOMAIN shares) :
                 fold_loop(shares, LastReduction, o, fold_init(LastReduction))
                 = [failure |-> NoFailure, v |-> players[lastOp.p].folded_share]

\* C17 witness: the weighted fold the source records for player 1 in round 2:
\* the three distinct shares 5, 10, 11 fold to 13.
C17_Witness ==
    /\ pc.prog = "fold"
    /\ lastOp.name = "fold_share"
    /\ lastOp.kind = "weighted"
    /\ players["player1"].shares = <<5, 10, 11>>
    /\ players["player1"].folded_share = 13
    /\ failure = NoFailure

(***************************************************************************)
(* Ordering of the multiplication run, checked under SpecMul.              *)
(***************************************************************************)

\* the variables of the players of round 1 and of round 2
Round1 == {"player1", "player2", "player3"}
Round2 == {"player1_m", "player2_m", "player3_m"}

\* the players among R that share in their round: those the program calls
\* make_poly on
Sharers(R) ==
    {v \in R : \E i \in 1..Len(MulProgram) :
                  MulProgram[i].op = "make_poly" /\ MulProgram[i].var = v}

Sharers1 == Sharers(Round1)
Sharers2 == Sharers(Round2)

\* the sharing players of the round the player in variable v belongs to
RoundSharers(v) == IF v \in Round1 THEN Sharers1 ELSE Sharers2

\* the position in mul_simulation of the fold_share statement of each player
\* of round 1
Round1FoldAt ==
    [v \in Round1 |->
       CHOOSE i \in 1..Len(MulProgram) :
          MulProgram[i].op = "fold_share" /\ MulProgram[i].var = v]

\* C18: in the multiplication run no statement has failed, and the statement
\* about to run has its precursors: a recieve_share(p, q) finds q with a
\* polynomial, a fold_share finds in the player's shares the share of every
\* sharing participant of its round, and the first statement of round 2 (as
\* every later one) finds all three players of round 1 folded.
C18_ProtocolOrdering ==
    (pc.prog = "mul")
    => /\ failure = NoFailure
       /\ ~Done =>
            /\ Stmt.op = "recieve_share"
               => /\ Stmt.q \in DOMAIN players
                  /\ players[Stmt.q].poly.some
            /\ Stmt.op = "fold_share"
               => \A w \in RoundSharers(Stmt.var) :
                     players[w].id \in DOMAIN players[Stmt.var].shares
            /\ (Stmt.op \in {"new_from", "make_poly", "recieve_share", "fold_share"}
                /\ Stmt.var \in Round2)
               => \A v \in Round1 : pc.at > Round1FoldAt[v]

\* C18 witness: the run is about to fold the last player of round 2, which
\* holds the shares of all three resharing players.
C18_Witness ==
    /\ pc.prog = "mul"
    /\ ~Done
    /\ Stmt.op = "fold_share"
    /\ Stmt.var = "player3_m"
    /\ DOMAIN players["player3_m"].shares = {1, 2, 3}
    /\ \A v \in Round2 : players[v].poly.some
    /\ \A v \in Round1 : Folded(v)
    /\ failure = NoFailure

(***************************************************************************)
(* SpecWord: the products of mul, mul_assign and pow_u in the machine      *)
(* word.  The word is scaled down to WordBits bits, and MOD is any value   *)
(* of the word above 1.  A product that does not fit panics in a build     *)
(* with overflow checks and wraps in one without.                          *)
(***************************************************************************)
Word == 2 ^ WordBits

WordModuli == 2..(Word - 1)

MulOverflow == "attempt to multiply with overflow"

\* self.val * other.val does not fit the word
mul_overflows(a, b) == a * b >= Word

\* (self.val * other.val) % MOD with the product wrapped to the word
mul_wrapped(a, b) == ((a * b) % Word) % MOD

\* the while loop of pow_u with wrapping products: the result, and whether
\* one of the products res * val and val * val did not fit the word
RECURSIVE pow_u_wrapped_loop(_, _, _)
pow_u_wrapped_loop(v, res, n) ==
    IF n = 0 THEN [val |-> res, overflow |-> FALSE]
    ELSE LET odd == n % 2 = 1
             r == pow_u_wrapped_loop(mul_wrapped(v, v),
                                     IF odd THEN mul_wrapped(res, v) ELSE res,
                                     n \div 2)
         IN  [val |-> r.val,
              overflow |-> \/ (odd /\ mul_overflows(res, v))
                           \/ mul_overflows(v, v)
                           \/ r.overflow]

pow_u_wrapped(a, n) == pow_u_wrapped_loop(a, 1, n)

InitWord ==
    /\ MOD \in WordModuli
    /\ x = zero
    /\ y = zero
    /\ lastOp = NoOp
    /\ failure = NoFailure
    /\ com = NoCom
    /\ parts = <<>>
    /\ players = <<>>
    /\ phs = <<>>
    /\ out = <<>>
    /\ pc = 0

\* the call computed a product in the word and returned r, or panicked
WordResult(name, r, overflow) ==
    /\ y' = y
    /\ lastOp' = [name |-> name, overflow |-> overflow]
    /\ fieldFrame
    /\ \/ x' = r /\ failure' = NoFailure
       \/ overflow /\ x' = x /\ failure' = MulOverflow

\* let y = ModInt::new(n);
WNew ==
    /\ Running
    /\ \E n \in 0..(Word - 1) :
          /\ y' = new(n)
          /\ x' = x
          /\ lastOp' = [name |-> "new", overflow |-> FALSE]
          /\ failure' = NoFailure
          /\ fieldFrame

\* let x = y;
WCopy ==
    /\ Running
    /\ x' = y
    /\ y' = y
    /\ lastOp' = [name |-> "copy", overflow |-> FALSE]
    /\ failure' = NoFailure
    /\ fieldFrame

WMul == Running /\ WordResult("mul", mul_wrapped(x, y), mul_overflows(x, y))

WMulAssign == Running /\ WordResult("mul_assign", mul_wrapped(x, y), mul_overflows(x, y))

WPowU ==
    /\ Running
    /\ \E n \in 0..(Word - 1) :
          WordResult("pow_u", pow_u_wrapped(x, n).val, pow_u_wrapped(x, n).overflow)

NextWord == WNew \/ WCopy \/ WMul \/ WMulAssign \/ WPowU

SpecWord == InitWord /\ [][NextWord]_vars

\* C19: field multiplication and exponentiation are overflow-safe: for every
\* modulus of the word and all operands in [0, MOD), the products computed
\* before the % MOD reduction in mul, mul_assign and pow_u fit the word.
C19_ProductsFitWord ==
    lastOp.name \in {"mul", "mul_assign", "pow_u"} => ~lastOp.overflow

(***************************************************************************)
(* The shares mappings, checked under Spec.                                *)
(***************************************************************************)

\* the variable holding the player with id j
PlayerWithId(j) == CHOOSE v \in PlayerVars : players[v].id = j

\* every entry j of every player i's shares is P_j(i.id), the polynomial of
\* the player with id j at i's id, and a player that has a polynomial holds
\* its own share
SharesConsistent ==
    \A i \in PlayerVars :
       /\ \A j \in DOMAIN players[i].shares :
             /\ \E v \in PlayerVars : players[v].id = j
             /\ players[PlayerWithId(j)].poly.some
             /\ players[i].shares[j]
                = closure_call(players[PlayerWithId(j)].poly, from(players[i].id))
       /\ players[i].poly.some => players[i].id \in DOMAIN players[i].shares

\* a make_poly step on a player that already has a polynomial
RepeatedMakePoly == lastOp'.name = "make_poly" /\ players[lastOp'.p].poly.some

\* C20: SharesConsistent holds initially and is kept by every step that does
\* not fail and is not a second make_poly of a player; so it holds in every
\* state reached by make_poly (at most once per player), recieve_share and
\* fold_share.
C20_SharesArePolynomialValues ==
    /\ SharesConsistent
    /\ [][(SharesConsistent /\ ~RepeatedMakePoly /\ failure' = NoFailure)
          => SharesConsistent']_vars

\* C20 witness: the shares of player 1 in the recorded run: its own share
\* P_1(1) = 7 and the share P_2(1) = 7 received from player 2.
C20_Witness ==
    /\ pc.prog = "any"
    /\ lastOp.name = "recieve_share"
    /\ lastOp.p = "player1"
    /\ players["player1"].poly.some /\ players["player2"].poly.some
    /\ players["player1"].poly.k = 2 /\ players["player1"].rands = <<5>>
    /\ players["player2"].poly.k = 2
    /\ players["player1"].shares = <<7, 7>>
    /\ SharesConsistent
    /\ failure = NoFailure

(***************************************************************************)
(* SpecSecret: one player with any secret and any single coefficient of    *)
(* the field, over each modulus; make_poly(2) and give_share(t) are called *)
(* in any order, t being any id up to two past the modulus.                *)
(***************************************************************************)
SecretModuli == Moduli \cup {ZMOD}

InitSecret ==
    /\ MOD \in SecretModuli
    /\ \E s \in 0..(MOD - 1), r \in 0..(MOD - 1) :
          players = [v \in {"player1"} |-> player_new(1, new(s), <<new(r)>>)]
    /\ pc = [prog |-> "secret", at |-> 0]
    /\ lastOp = NoOp
    /\ failure = NoFailure
    /\ phs = <<>>
    /\ out = <<>>
    /\ x = zero
    /\ y = zero
    /\ com = NoCom
    /\ parts = <<>>

\* player1.make_poly(2): threshold 2
SecretMakePoly == Call /\ DoMakePoly("player1", 2)

\* player1.give_share(t), t any u16: 0 and ids from the modulus on included
SecretGiveShare == Call /\ \E t \in 0..(MOD + 2) : DoGiveShare("player1", t)

NextSecret == SecretMakePoly \/ SecretGiveShare

SpecSecret == InitSecret /\ [][NextSecret]_vars

\* what give_share(t) returns for a player built with secret s and the one
\* coefficient r, after make_poly(2)
ShareOf(s, r, t) == closure_call(closure(s, <<r>>, 2), from(t))

\* the share values recipient t can observe for secret s, over all coefficients
Observable(s, t) == {ShareOf(s, r, t) : r \in 0..(MOD - 1)}

\* C21: with threshold 2 over a prime MOD, a successful give_share(t) returns
\* ShareOf(secret, coefficient, t); when t mod MOD is not 0, the map from the
\* coefficient to the share is a bijection on the field (its image has MOD
\* elements of [0, MOD)), the set of observable shares is the same for every
\* other secret, and the value observed is produced by every secret with some
\* coefficient; when t mod MOD is 0 the call is not rejected and returns the
\* secret itself.
C21_SingleShareHidesSecret ==
    LET p == players["player1"]
        F == 0..(MOD - 1)
    IN  (/\ pc.prog = "secret"
         /\ lastOp.name = "give_share"
         /\ p.poly.some
         /\ IsPrime(MOD))
        => /\ failure = NoFailure
           /\ lastOp.ok
           /\ lastOp.ret = ShareOf(p.poly.secret, p.poly.rands[1], lastOp.t)
           /\ lastOp.t % MOD # 0
              => /\ Observable(p.poly.secret, lastOp.t) = F
                 /\ Cardinality(Observable(p.poly.secret, lastOp.t)) = MOD
                 /\ \A s2 \in F : Observable(s2, lastOp.t) = Observable(p.poly.secret, lastOp.t)
                 /\ \A s2 \in F : \E r2 \in F : ShareOf(s2, r2, lastOp.t) = lastOp.ret
           /\ lastOp.t % MOD = 0 => lastOp.ret = p.poly.secret

\* C21 witness: the first share of the recorded run, player1 (secret 2,
\* coefficient 5) giving 2 + 5 * 2 = 12 to id 2 over Z_17; secret 4 with
\* coefficient 4 gives the same value.
C21_Witness ==
    /\ pc.prog = "secret"
    /\ MOD = ZMOD
    /\ lastOp.name = "give_share"
    /\ lastOp.ok
    /\ lastOp.t = 2
    /\ players["player1"].poly.some
    /\ players["player1"].poly.secret = 2
    /\ players["player1"].poly.rands = <<5>>
    /\ lastOp.ret = 12
    /\ ShareOf(4, 4, 2) = 12

(***************************************************************************)
(* The precondition of make_poly, checked under SpecPoly.                  *)
(***************************************************************************)

\* C22: make_poly(k) with k = 0 or with fewer than k-1 coefficients fails
\* inside make_poly, in the evaluation at the player's own id: the call ends
\* in a panic (the subtraction overflow of k - 1 or an index out of bounds
\* for k = 0, an index out of bounds for a short list), the player's shares
\* are what they were before the call, so no self-share is inserted, and no
\* call follows a failed one, so no polynomial of lower degree is ever
\* evaluated; with k >= 1 and at least k-1 coefficients the call succeeds and
\* leaves a self-share.
C22_MakePolyPrecondition ==
    [][/\ failure = NoFailure
       /\ lastOp'.name = "make_poly"
          => LET p == players["player1"]
                 p2 == players'["player1"]
                 k == lastOp'.k
             IN  /\ (k = 0 \/ Len(p.rands) < k - 1)
                    => /\ failure' \in {SubOverflow, IndexOutOfBounds}
                       /\ k # 0 => failure' = IndexOutOfBounds
                       /\ p2.shares = p.shares
                       /\ p2.folded_share = p.folded_share
                       /\ p2.secret = p.secret /\ p2.rands = p.rands /\ p2.id = p.id
                 /\ (k >= 1 /\ Len(p.rands) >= k - 1)
                    => /\ failure' = NoFailure
                       /\ p2.poly.some /\ p2.poly.k = k
                       /\ p.id \in DOMAIN p2.shares]_vars

\* C22 witness: make_poly(2) succeeded on a player with one coefficient and
\* left the self-share secret + rands[0] * id; make_poly(3) then panics on
\* rands[1] and the shares still hold that one entry.
C22_Witness ==
    LET p == players["player1"]
    IN  /\ pc.prog = "poly"
        /\ pc.at = 2
        /\ lastOp.name = "make_poly"
        /\ lastOp.k = 3
        /\ Len(p.rands) = 1
        /\ failure = IndexOutOfBounds
        /\ DOMAIN p.shares = {p.id}
        /\ p.rands[1] # zero
        /\ p.shares[p.id] = (p.secret + p.rands[1] * p.id) % ZMOD

====
